---- MODULE Spec2Model ----
(***************************************************************************)
(* Model of streamlit_predict_app.py: the Show-or-Tell submission workflow. *)
(*                                                                         *)
(* Each browser session reruns the script once per widget event.  The      *)
(* script keeps its state in st.session_state (one dictionary per          *)
(* session) and in a MySQL store shared by all sessions.  Every database   *)
(* helper opens its own connection and commits its own transaction, so     *)
(* two sessions interleave at the boundaries between helper calls.         *)
(*                                                                         *)
(* Text is modelled as a sequence of tokens.  For a name, an email or a    *)
(* title a token is a character; for a story a token is either a blank     *)
(* or a whole sentence, which is what nltk.sent_tokenize splits on.        *)
(***************************************************************************)
EXTENDS Integers, Sequences, FiniteSets, TLC

\* ------------------------------------------------------------------------
\* Bounds of the model
\* ------------------------------------------------------------------------

\* Longest story, in sentences, a session may enter.
MaxSentences == 2

\* Most rows the student_inputs table may hold (submit is not offered beyond).
MaxInputs == 2

Sessions == {"u1", "u2"}

\* ------------------------------------------------------------------------
\* Text helpers
\* ------------------------------------------------------------------------

\* The falsy identifier: Python None, and 0 for cur.lastrowid.
NoId == 0

Blank == " "

\* str.lower() on one character.
LowerChar(c) == IF c = "A" THEN "a" ELSE IF c = "N" THEN "n" ELSE c

\* str.lower()
Lower(s) == [i \in 1..Len(s) |-> LowerChar(s[i])]

RECURSIVE LStrip(_)
LStrip(s) == IF s # <<>> /\ Head(s) = Blank THEN LStrip(Tail(s)) ELSE s

RECURSIVE RStrip(_)
RStrip(s) ==
    IF s # <<>> /\ s[Len(s)] = Blank THEN RStrip(SubSeq(s, 1, Len(s) - 1)) ELSE s

\* str.strip()
Strip(s) == RStrip(LStrip(s))

\* Python truthiness of a str / list: non-empty.
Truthy(s) == s # <<>>

\* f"Week {int(week_number)}"
WeekLabel(n) == <<"Week", n>>

\* ------------------------------------------------------------------------
\* Classifier (external collaborator)
\* ------------------------------------------------------------------------

Sentences == {"s1", "s2"}

\* nltk.sent_tokenize: the sentences of a text, in order of appearance.
SentTokenize(story) == SelectSeq(story, LAMBDA t : t # Blank)

\* model.predict on one sentence: 0 = Show, 1 = Tell.
PredictOne(sent) == IF sent = "s1" THEN 0 ELSE 1

\* predict_sentences: one label per sentence, in order.
predict_sentences(sentences) == [i \in 1..Len(sentences) |-> PredictOne(sentences[i])]

\* ------------------------------------------------------------------------
\* The MySQL store
\* ------------------------------------------------------------------------

\* Outcomes of one call of a database helper.
DbOutcomes == {"ok", "conn_error", "query_error"}

\* Outcomes of insert_submission_and_sentences, by the statement that raises.
InsertOutcomes == {"ok", "conn_error", "parent_error", "sentences_error", "commit_error"}

EmptyDb ==
    [students |-> {}, weeks |-> {}, student_inputs |-> <<>>, student_sentences |-> <<>>]

\* The value of a column the INSERT statement does not list.
NULL == "NULL"

\* Mutant: the email is used as typed, neither trimmed nor lower-cased.
get_or_create_student_raw(d, full_name, email, outcome) ==
    LET old == {r \in d.students : r.email = email}
        sid == IF old = {} THEN Cardinality(d.students) + 1
               ELSE (CHOOSE r \in old : TRUE).student_id
        row == [student_id |-> sid, full_name |-> Strip(full_name), email |-> email]
    IN  IF outcome = "ok"
        THEN [db |-> [d EXCEPT !.students = (d.students \ old) \cup {row}], ret |-> sid]
        ELSE [db |-> d, ret |-> NoId]

\* Mutant: the statement is INSERT IGNORE, which keeps the stored full_name.
get_or_create_student_ignore(d, full_name, email, outcome) ==
    LET email_l == Lower(Strip(email))
        old     == {r \in d.students : r.email = email_l}
        sid     == Cardinality(d.students) + 1
        row     == [student_id |-> sid, full_name |-> Strip(full_name), email |-> email_l]
    IN  IF outcome # "ok" THEN [db |-> d, ret |-> NoId]
        ELSE IF old = {}
        THEN [db |-> [d EXCEPT !.students = d.students \cup {row}], ret |-> sid]
        ELSE [db |-> d, ret |-> (CHOOSE r \in old : TRUE).student_id]

\* get_or_create_student: INSERT ... ON DUPLICATE KEY UPDATE full_name, then
\* the id from lastrowid or from the SELECT by email; a failure rolls back.
get_or_create_student(d, full_name, email, outcome) ==
    LET email_l == Lower(Strip(email))
        old     == {r \in d.students : r.email = email_l}
        sid     == IF old = {} THEN Cardinality(d.students) + 1
                   ELSE (CHOOSE r \in old : TRUE).student_id
        row     == [student_id |-> sid, full_name |-> Strip(full_name), email |-> email_l]
    IN  IF outcome = "ok"
        THEN [db |-> [d EXCEPT !.students = (d.students \ old) \cup {row}], ret |-> sid]
        ELSE [db |-> d, ret |-> NoId]

\* label=None, the default of get_or_create_week's second parameter.
NoLabel == <<>>

\* Mutant: week_number is no unique key, so every call inserts a row.
get_or_create_week_append(d, week_number, label, outcome) ==
    LET lbl == IF Truthy(label) THEN label ELSE WeekLabel(week_number)
        wid == Cardinality(d.weeks) + 1
        row == [week_id |-> wid, week_number |-> week_number, label |-> lbl]
    IN  IF outcome = "ok"
        THEN [db |-> [d EXCEPT !.weeks = d.weeks \cup {row}], ret |-> wid]
        ELSE [db |-> d, ret |-> NoId]

\* get_or_create_week: INSERT ... ON DUPLICATE KEY UPDATE label, then the id
\* from lastrowid or from the SELECT by week_number; a failure rolls back.
get_or_create_week(d, week_number, label, outcome) ==
    LET lbl == IF Truthy(label) THEN label ELSE WeekLabel(week_number)
        old == {r \in d.weeks : r.week_number = week_number}
        wid == IF old = {} THEN Cardinality(d.weeks) + 1
               ELSE (CHOOSE r \in old : TRUE).week_id
        row == [week_id |-> wid, week_number |-> week_number, label |-> lbl]
    IN  IF outcome = "ok"
        THEN [db |-> [d EXCEPT !.weeks = (d.weeks \ old) \cup {row}], ret |-> wid]
        ELSE [db |-> d, ret |-> NoId]

\* Mutant: the probe never finds a row.
has_existing_submission_never(d, student_id, week_id, outcome) == FALSE

\* has_existing_submission: SELECT 1 ... WHERE student_id AND week_id LIMIT 1;
\* a connection or query failure is reported as "no submission".
has_existing_submission(d, student_id, week_id, outcome) ==
    IF outcome = "ok"
    THEN \E i \in 1..Len(d.student_inputs) :
            /\ d.student_inputs[i].student_id = student_id
            /\ d.student_inputs[i].week_id = week_id
    ELSE FALSE

\* Mutant: student_inputs has a unique key on (student_id, week_id) and the
\* parent INSERT leaves the table alone when the key exists.
InsertParent_keyed(d, input_id, a) ==
    IF \E i \in 1..Len(d.student_inputs) :
            /\ d.student_inputs[i].student_id = a.student_id
            /\ d.student_inputs[i].week_id = a.week_id
    THEN d
    ELSE [d EXCEPT !.student_inputs = Append(@,
            [input_id |-> input_id,
             student_id |-> a.student_id, week_id |-> a.week_id,
             student_name |-> a.student_name, email |-> a.email,
             title |-> a.title, story |-> a.story,
             total_sentences |-> a.total, show_sentences |-> a.show,
             tell_sentences |-> a.tell,
             reflection |-> a.reflection, comments |-> a.comments,
             agreed_show |-> "NULL", agreed_tell |-> "NULL",
             disagreed_show |-> "NULL", disagreed_tell |-> "NULL"])]

\* The parent INSERT of insert_submission_and_sentences inside its transaction.
InsertParent(d, input_id, a) ==
    [d EXCEPT !.student_inputs = Append(@,
        [input_id |-> input_id,
         student_id |-> a.student_id, week_id |-> a.week_id,
         student_name |-> a.student_name, email |-> a.email,
         title |-> a.title, story |-> a.story,
         total_sentences |-> a.total, show_sentences |-> a.show,
         tell_sentences |-> a.tell,
         reflection |-> a.reflection, comments |-> a.comments,
         agreed_show |-> NULL, agreed_tell |-> NULL,
         disagreed_show |-> NULL, disagreed_tell |-> NULL])]

\* Mutant: sentence_idx is written counting from one.
InsertSentences_from_one(d, input_id, a) ==
    [d EXCEPT !.student_sentences = @ \o
        [i \in 1..Len(a.sentence_rows) |->
            [input_id |-> input_id, week_id |-> a.week_id,
             sentence_idx |-> a.sentence_rows[i][1] + 1,
             sentence_text |-> a.sentence_rows[i][2],
             model_label |-> a.sentence_rows[i][3],
             student_agree |-> a.sentence_rows[i][4]]]]

\* The executemany INSERT of the sentence rows inside the transaction.
InsertSentences(d, input_id, a) ==
    [d EXCEPT !.student_sentences = @ \o
        [i \in 1..Len(a.sentence_rows) |->
            [input_id |-> input_id, week_id |-> a.week_id,
             sentence_idx |-> a.sentence_rows[i][1],
             sentence_text |-> a.sentence_rows[i][2],
             model_label |-> a.sentence_rows[i][3],
             student_agree |-> a.sentence_rows[i][4]]]]

\* Mutant: the connection runs with autocommit, so rollback undoes nothing.
Rollback_autocommit(before, working) == working

\* conn.rollback(): the store as it was when the transaction began.
Rollback(before, working) == before

\* insert_submission_and_sentences: parent row, sentence rows, commit; any
\* mysql error rolls the transaction back and returns None.
insert_submission_and_sentences(d, a, outcome) ==
    LET input_id == Len(d.student_inputs) + 1
        t1 == InsertParent(d, input_id, a)
        t2 == InsertSentences(t1, input_id, a)
    IN  CASE outcome = "conn_error"      -> [db |-> d, ret |-> NoId]
          [] outcome = "parent_error"    -> [db |-> Rollback(d, d), ret |-> NoId]
          [] outcome = "sentences_error" -> [db |-> Rollback(d, t1), ret |-> NoId]
          [] outcome = "commit_error"    -> [db |-> Rollback(d, t2), ret |-> NoId]
          [] OTHER                       -> [db |-> t2, ret |-> input_id]

\* ------------------------------------------------------------------------
\* State
\* ------------------------------------------------------------------------

VARIABLES
    secrets,    \* st.secrets: the configured keys and their values
    session,    \* session[s]: st.session_state of session s, a dictionary
    db,         \* the committed contents of the MySQL store
    outbox,     \* the messages handed to SMTP so far, in order
    screen,     \* the handler messages the most recently finished run displayed
    pc,         \* pc[s]: where the running script of session s stands
    loc         \* loc[s]: the local variables of that running script

vars == <<secrets, session, db, outbox, screen, pc, loc>>

\* ------------------------------------------------------------------------
\* Secrets and st.session_state
\* ------------------------------------------------------------------------

\* get_secret: the configured value, or None (here the empty text).
get_secret(name) == IF name \in DOMAIN secrets THEN secrets[name] ELSE <<>>

\* read_admin_key: str(st.secrets.get("ADMIN_KEY", "") or "")
read_admin_key == IF "ADMIN_KEY" \in DOMAIN secrets THEN secrets["ADMIN_KEY"] ELSE <<>>

\* The week used when CURRENT_WEEK is not configured.
FallbackWeek == 5

\* current_week_default: int(st.secrets.get("CURRENT_WEEK", 5))
current_week_default ==
    IF "CURRENT_WEEK" \in DOMAIN secrets THEN secrets["CURRENT_WEEK"] ELSE FallbackWeek

\* st.session_state.<k> = v
Put(ss, k, v) == [x \in DOMAIN ss \cup {k} |-> IF x = k THEN v ELSE ss[x]]

\* st.session_state.get(k) for a flag: a missing key reads as falsy.
GetFlag(ss, k) == IF k \in DOMAIN ss THEN ss[k] ELSE FALSE

\* st.session_state.clear()
Cleared == [x \in {} |-> FALSE]

\* The event that caused a rerun of the script.
NoEvent == [kind |-> "none"]

\* Lines 271-276: admin_ok defaults to False; while it is False the week is
\* resynchronised from the secrets at the top of every run.
AdminPrelude(ss) ==
    LET s1 == IF "admin_ok" \notin DOMAIN ss THEN Put(ss, "admin_ok", FALSE) ELSE ss
    IN  IF ~GetFlag(s1, "admin_ok") THEN Put(s1, "week_number", current_week_default)
        ELSE s1

\* Mutant: Unlock compares the keys without first asking whether a key is
\* configured.
Sidebar_unchecked(ss, ev) ==
    CASE ev.kind = "unlock" -> Put(ss, "admin_ok", Strip(ev.key) = Strip(read_admin_key))
      [] ev.kind = "lock" -> Put(ss, "admin_ok", FALSE)
      [] OTHER -> ss

\* Lines 282-295: the Unlock and Lock buttons of the sidebar.
Sidebar(ss, ev) ==
    CASE ev.kind = "unlock" ->
            LET expected == Strip(read_admin_key)
                entered  == Strip(ev.key)
            IN  IF ~Truthy(expected) THEN ss
                ELSE Put(ss, "admin_ok", entered = expected)
      [] ev.kind = "lock" -> Put(ss, "admin_ok", FALSE)
      [] OTHER -> ss

\* The st.error / st.success lines of the sidebar.
SidebarMsgs(ss, ev) ==
    CASE ev.kind = "unlock" ->
            IF ~Truthy(Strip(read_admin_key)) THEN {"admin_key_missing"}
            ELSE IF Strip(ev.key) = Strip(read_admin_key) THEN {"admin_unlocked"}
            ELSE {"invalid_key"}
      [] ev.kind = "lock" -> {"admin_locked"}
      [] OTHER -> {}

\* Lines 298-306: the week is editable only while unlocked; the number input
\* returns what the admin entered, else the value it was rendered with.
WeekWidget(ss, ev) ==
    IF GetFlag(ss, "admin_ok")
    THEN Put(ss, "week_number", IF ev.kind = "set_week" THEN ev.week ELSE ss["week_number"])
    ELSE ss

\* Lines 316-319: page and analysis_done default on first use.
PageInit(ss) ==
    LET s1 == IF "page" \notin DOMAIN ss THEN Put(ss, "page", "input") ELSE ss
    IN  IF "analysis_done" \notin DOMAIN s1 THEN Put(s1, "analysis_done", FALSE) ELSE s1

\* Lines 271-319: everything the script does before the page-specific part.
Begin(ss, ev) == PageInit(WeekWidget(Sidebar(AdminPrelude(ss), ev), ev))

\* "Show" if label == 0 else "Tell"
LabelText(label) == IF label = 0 THEN "Show" ELSE "Tell"

\* Mutant: the generator tests the prediction for truth, not against v.
Count_truthy(seq, v) == Cardinality({i \in 1..Len(seq) : seq[i] # 0})

\* sum(1 for p in predictions if p == v)
Count(seq, v) == Cardinality({i \in 1..Len(seq) : seq[i] = v})

Min(a, b) == IF a < b THEN a ELSE b

\* The checkbox values the widgets hold from the previous run of the page.
ShownAgree(ss) ==
    [i \in 1..Len(ss["student_feedback"]) |-> ss["student_feedback"][i].agree]

\* Lines 355-403: the analysis block, run while analysis_done is False.  agree
\* holds the checkbox values, comment the text area, next the Next button.
AnalysisBlock(ss, agree, comment, next) ==
    LET story       == ss["stories"][1]
        sentences   == SentTokenize(story)
        predictions == predict_sentences(sentences)
        n           == Min(Len(sentences), Len(predictions))
        feedback_data ==
            [i \in 1..n |-> [sentence |-> sentences[i],
                             label |-> LabelText(predictions[i]),
                             agree |-> agree[i]]]
        sentence_rows ==
            [i \in 1..n |-> <<i - 1, sentences[i], LabelText(predictions[i]),
                              IF agree[i] THEN 1 ELSE 0>>]
        total == Len(predictions)
        show  == Count(predictions, 0)
        tell  == Count(predictions, 1)
        s1 == Put(ss, "student_feedback", feedback_data)
        s2 == Put(s1, "sentence_rows", sentence_rows)
        s3 == Put(s2, "total_sentences", total)
        s4 == Put(s3, "show_sentences", show)
        s5 == Put(s4, "tell_sentences", tell)
        s6 == Put(s5, "common_reason", comment)
    IN  IF next THEN Put(Put(s6, "analysis_done", TRUE), "feedback_complete", TRUE)
        ELSE s6

\* Lines 339-343 followed by the RESULTS block of the same run, whose
\* checkboxes and comment box are new and so unticked and empty.
AcceptAnalyze(ss, form, stories) ==
    LET s1 == Put(ss, "page", "results")
        s2 == Put(s1, "stories", stories)
        s3 == Put(s2, "student_name", form.name)
        s4 == Put(s3, "student_email", form.email)
        s5 == Put(s4, "story_title", form.title)
        n  == Len(SentTokenize(stories[1]))
    IN  AnalysisBlock(s5, [i \in 1..n |-> FALSE], <<>>, FALSE)

\* Mutant: the analysis block runs on every render of the results page, with
\* the checkboxes and the comment box as a page that had dropped them shows
\* them.
Rerender_unfrozen(ss) ==
    IF ss["page"] = "results"
    THEN AnalysisBlock(ss, [i \in 1..Len(ss["student_feedback"]) |-> FALSE], <<>>, FALSE)
    ELSE ss

\* A rerun that presses no page button: the analysis block, if it is the
\* one on display, recomputes from the widget values it already holds.
Rerender(ss) ==
    IF ss["page"] = "results" /\ ~ss["analysis_done"]
    THEN AnalysisBlock(ss, ShownAgree(ss), ss["common_reason"], FALSE)
    ELSE ss

\* ------------------------------------------------------------------------
\* Email
\* ------------------------------------------------------------------------

MailOutcomes == {"ok", "auth_error", "send_error"}

\* Mutant: changed counts the sentences the student agreed with, and the
\* markers follow it.
FeedbackMessage_agreed(email, student_name, title, summary, feedback_list, reflection, comment) ==
    [to |-> email, student_name |-> student_name, title |-> title,
     total_sentences |-> summary.total_sentences,
     show_sentences |-> summary.show_sentences,
     tell_sentences |-> summary.tell_sentences,
     changed |-> Cardinality({i \in 1..Len(feedback_list) : feedback_list[i].agree}),
     details |-> [i \in 1..Len(feedback_list) |->
                    [label |-> feedback_list[i].label,
                     sentence |-> feedback_list[i].sentence,
                     status |-> IF feedback_list[i].agree THEN "Did NOT agree"
                                ELSE "Agreed"]],
     comment |-> comment, reflection |-> reflection]

\* Lines 216-242: the message send_feedback_email builds.
FeedbackMessage(email, student_name, title, summary, feedback_list, reflection, comment) ==
    [to |-> email, student_name |-> student_name, title |-> title,
     total_sentences |-> summary.total_sentences,
     show_sentences |-> summary.show_sentences,
     tell_sentences |-> summary.tell_sentences,
     changed |-> Cardinality({i \in 1..Len(feedback_list) : ~feedback_list[i].agree}),
     details |-> [i \in 1..Len(feedback_list) |->
                    [label |-> feedback_list[i].label,
                     sentence |-> feedback_list[i].sentence,
                     status |-> IF feedback_list[i].agree THEN "Agreed"
                                ELSE "Did NOT agree"]],
     comment |-> comment, reflection |-> reflection]

\* Mutant: after a failure the message is sent again, and goes out.
send_feedback_email_retry(ob, msg, outcome) ==
    [outbox |-> Append(ob, msg),
     msgs |-> {IF outcome = "ok" THEN "email_sent"
               ELSE IF outcome = "auth_error" THEN "gmail_auth_failed"
               ELSE "email_failed"}]

\* Lines 244-254: the SMTP session; a failure is displayed, never raised.
send_feedback_email(ob, msg, outcome) ==
    IF outcome = "ok"
    THEN [outbox |-> Append(ob, msg), msgs |-> {"email_sent"}]
    ELSE [outbox |-> ob,
          msgs |-> {IF outcome = "auth_error" THEN "gmail_auth_failed"
                    ELSE "email_failed"}]

\* ------------------------------------------------------------------------
\* The two handlers that call the store, one helper call per step
\* ------------------------------------------------------------------------

NoLocals == [x \in {} |-> NoId]

\* The running script of one session: its position, its local variables, its
\* session_state, the store, the outbox and what it has displayed so far.
Running(p, l, ss, d, ob, m) ==
    [pc |-> p, loc |-> l, session |-> ss, db |-> d, outbox |-> ob, msgs |-> m]

\* Script has ended (or st.stop() was called): locals are gone.
Finished(r, ss, d, ob, m) == Running("idle", NoLocals, ss, d, ob, r.msgs \cup m)

\* Lines 334-343: the Analyze handler from its first store call on.
AnalyzeStep(r, o) ==
    CASE r.pc = "an_student" ->
            LET g == get_or_create_student(r.db, r.loc.student_name, r.loc.email, o)
            IN  Running("an_week", Put(r.loc, "_sid", g.ret), r.session, g.db, r.outbox,
                        r.msgs)
      [] r.pc = "an_week" ->
            LET g == get_or_create_week(r.db, r.session["week_number"], NoLabel, o)
            IN  IF r.loc["_sid"] # NoId /\ g.ret # NoId
                THEN Running("an_check", Put(r.loc, "_wid", g.ret), r.session, g.db,
                             r.outbox, r.msgs)
                ELSE Finished(r, AcceptAnalyze(r.session,
                                  [name |-> r.loc.student_name, email |-> r.loc.email,
                                   title |-> r.loc.title], r.loc.stories),
                              g.db, r.outbox, {})
      [] OTHER ->
            IF has_existing_submission(r.db, r.loc["_sid"], r.loc["_wid"], o)
            THEN Finished(r, r.session, r.db, r.outbox, {"already_submitted"})
            ELSE Finished(r, AcceptAnalyze(r.session,
                              [name |-> r.loc.student_name, email |-> r.loc.email,
                               title |-> r.loc.title], r.loc.stories),
                          r.db, r.outbox, {})

\* Mutant: the email is sent whatever insert_submission_and_sentences returned.
SavedOk_always(input_id) == TRUE

\* Line 431: if input_id
SavedOk(input_id) == input_id # NoId

\* Lines 421-429: the arguments of insert_submission_and_sentences.
InsertArgs(l, ss) ==
    [student_id |-> l.student_id, week_id |-> l.week_id,
     student_name |-> l.name, email |-> l.email_addr, title |-> l.story_title,
     story |-> ss["stories"][1],
     total |-> ss["total_sentences"], show |-> ss["show_sentences"],
     tell |-> ss["tell_sentences"],
     reflection |-> l.reflection, comments |-> ss["common_reason"],
     sentence_rows |-> ss["sentence_rows"]]

\* Lines 432-442: the summary and the message of the notification.
SubmitMessage(l, ss) ==
    FeedbackMessage(l.email_addr, l.name, l.story_title,
        [total_sentences |-> ss["total_sentences"],
         show_sentences |-> ss["show_sentences"],
         tell_sentences |-> ss["tell_sentences"]],
        ss["student_feedback"], l.reflection, ss["common_reason"])

\* Lines 411-445: the Submit Feedback & Send Email handler.
SubmitStep(r, o) ==
    CASE r.pc = "sub_student" ->
            LET g == get_or_create_student(r.db, r.loc.name, r.loc.email_addr, o)
            IN  Running("sub_week", Put(r.loc, "student_id", g.ret), r.session, g.db,
                        r.outbox, r.msgs)
      [] r.pc = "sub_week" ->
            LET g == get_or_create_week(r.db, r.loc.week_number, NoLabel, o)
            IN  IF r.loc.student_id = NoId \/ g.ret = NoId
                THEN Finished(r, r.session, g.db, r.outbox, {"could_not_resolve"})
                ELSE Running("sub_check", Put(r.loc, "week_id", g.ret), r.session, g.db,
                             r.outbox, r.msgs)
      [] r.pc = "sub_check" ->
            IF has_existing_submission(r.db, r.loc.student_id, r.loc.week_id, o)
            THEN Finished(r, r.session, r.db, r.outbox, {"already_submitted"})
            ELSE Running("sub_insert", r.loc, r.session, r.db, r.outbox,
                         r.msgs)
      [] r.pc = "sub_insert" ->
            LET g == insert_submission_and_sentences(r.db, InsertArgs(r.loc, r.session), o)
            IN  IF SavedOk(g.ret)
                THEN Running("sub_email", Put(r.loc, "input_id", g.ret), r.session, g.db,
                             r.outbox, r.msgs)
                ELSE Finished(r, r.session, g.db, r.outbox, {"could_not_save"})
      [] OTHER ->
            LET e == send_feedback_email(r.outbox, SubmitMessage(r.loc, r.session), o)
            IN  Finished(r, r.session, r.db, e.outbox, e.msgs \cup {"submitted"})

\* ------------------------------------------------------------------------
\* What the users may enter
\* ------------------------------------------------------------------------

\* Name, email and title as typed on the input page.  The two complete forms
\* name the same student: their emails differ in case and surrounding blanks.
Forms ==
    { [name |-> <<"n">>, email |-> <<"a">>,        title |-> <<"t">>],
      [name |-> <<"m">>, email |-> <<Blank, "A">>, title |-> <<"t">>],
      [name |-> <<>>,    email |-> <<"a">>,        title |-> <<"t">>],
      [name |-> <<"n">>, email |-> <<>>,           title |-> <<"t">>],
      [name |-> <<"n">>, email |-> <<"a">>,        title |-> <<>>] }

\* A complete form of another student.
OtherForm == [name |-> <<"n">>, email |-> <<"b">>, title |-> <<"t">>]

\* Every text of 1..n sentences.
RECURSIVE Texts(_)
Texts(n) ==
    IF n = 0 THEN {}
    ELSE {<<x>> : x \in Sentences}
            \cup Texts(n - 1)
            \cup {Append(t, x) : t \in Texts(n - 1), x \in Sentences}

\* What may be typed in the story box: nothing, blanks only, a text, or a
\* text surrounded by blanks.
Stories ==
    {<<>>, <<Blank>>} \cup Texts(MaxSentences)
        \cup {<<Blank>> \o t \o <<Blank>> : t \in Texts(MaxSentences)}

Comments == {<<>>, <<"c">>}

Reflections == {<<>>, <<"r">>}

AdminKeys == {<<>>, <<"k">>, <<Blank, "k">>, <<"x">>}

\* Weeks the admin may pick in the number input (min_value=1, max_value=52).
AdminWeeks == {FallbackWeek, FallbackWeek + 1}

\* ------------------------------------------------------------------------
\* Initial state: every session has loaded the page once
\* ------------------------------------------------------------------------

FullSecrets ==
    [EMAIL_ADDRESS |-> <<"e">>, EMAIL_PASSWORD |-> <<"p">>, ADMIN_KEY |-> <<"k">>]

Init ==
    /\ secrets = FullSecrets
    /\ session = [s \in Sessions |-> Begin(Cleared, NoEvent)]
    /\ db = EmptyDb
    /\ outbox = <<>>
    /\ screen = {}
    /\ pc = [s \in Sessions |-> "idle"]
    /\ loc = [s \in Sessions |-> NoLocals]

\* ------------------------------------------------------------------------
\* Events served by one run of the script without a store call
\* ------------------------------------------------------------------------

Idle(s) == pc[s] = "idle"

OnInput(s) == session[s]["page"] = "input"

OnAnalysis(s) == session[s]["page"] = "results" /\ ~session[s]["analysis_done"]

\* Mutant: the reflection form is drawn on every results page.
OnReflection_results(s) == session[s]["page"] = "results"

\* Lines 346, 355 and 405: the reflection branch is the one on display.
OnReflection(s) ==
    /\ session[s]["page"] = "results"
    /\ session[s]["analysis_done"]
    /\ GetFlag(session[s], "feedback_complete")

\* A run ends having displayed msgs; they replace what was on display.
Shown(s, msgs) == screen' = msgs

\* The sidebar's Unlock button with key typed in the key box.
Unlock(s, key) ==
    LET ev == [kind |-> "unlock", key |-> key]
    IN  /\ Idle(s)
        /\ session' = [session EXCEPT ![s] = Rerender(Begin(@, ev))]
        /\ Shown(s, SidebarMsgs(AdminPrelude(session[s]), ev))
        /\ UNCHANGED <<secrets, db, outbox, pc, loc>>

\* The sidebar's Lock button.
Lock(s) ==
    LET ev == [kind |-> "lock"]
    IN  /\ Idle(s)
        /\ session' = [session EXCEPT ![s] = Rerender(Begin(@, ev))]
        /\ Shown(s, SidebarMsgs(AdminPrelude(session[s]), ev))
        /\ UNCHANGED <<secrets, db, outbox, pc, loc>>

\* The admin's number input, on display only while unlocked.
SetWeek(s, w) ==
    LET ev == [kind |-> "set_week", week |-> w]
    IN  /\ Idle(s)
        /\ GetFlag(session[s], "admin_ok")
        /\ w # session[s]["week_number"]
        /\ session' = [session EXCEPT ![s] = Rerender(Begin(@, ev))]
        /\ Shown(s, {})
        /\ UNCHANGED <<secrets, db, outbox, pc, loc>>

\* Ticking or unticking checkbox agree_i on the analysis page.
Toggle(s, i) ==
    LET ss == Begin(session[s], NoEvent)
        a  == ShownAgree(session[s])
    IN  /\ Idle(s)
        /\ OnAnalysis(s)
        /\ i \in 1..Len(session[s]["student_feedback"])
        /\ session' = [session EXCEPT ![s] =
                AnalysisBlock(ss, [a EXCEPT ![i] = ~@], ss["common_reason"], FALSE)]
        /\ Shown(s, {})
        /\ UNCHANGED <<secrets, db, outbox, pc, loc>>

\* Editing the comment box on the analysis page.
EditComment(s, c) ==
    LET ss == Begin(session[s], NoEvent)
    IN  /\ Idle(s)
        /\ OnAnalysis(s)
        /\ c # session[s]["common_reason"]
        /\ session' = [session EXCEPT ![s] =
                AnalysisBlock(ss, ShownAgree(session[s]), c, FALSE)]
        /\ Shown(s, {})
        /\ UNCHANGED <<secrets, db, outbox, pc, loc>>

\* The Next: Reflection & Email button.
NextClick(s) ==
    LET ss == Begin(session[s], NoEvent)
    IN  /\ Idle(s)
        /\ OnAnalysis(s)
        /\ session' = [session EXCEPT ![s] =
                AnalysisBlock(ss, ShownAgree(session[s]), ss["common_reason"], TRUE)]
        /\ Shown(s, {})
        /\ UNCHANGED <<secrets, db, outbox, pc, loc>>

\* The Restart button: st.session_state.clear(), then st.rerun().
Restart(s) ==
    /\ Idle(s)
    /\ OnReflection(s)
    /\ session' = [session EXCEPT ![s] = Begin(Cleared, NoEvent)]
    /\ Shown(s, {})
    /\ UNCHANGED <<secrets, db, outbox, pc, loc>>

\* ------------------------------------------------------------------------
\* The Analyze and Submit handlers
\* ------------------------------------------------------------------------

\* Mutant: the handler goes on without looking at name, email and title.
AnalyzeStart_unvalidated(ss0, d, ob, form, text) ==
    LET ss      == Begin(ss0, NoEvent)
        stories == IF Truthy(Strip(text)) THEN <<Strip(text)>> ELSE <<>>
    IN  IF Truthy(stories)
        THEN Running("an_student",
                     [student_name |-> form.name, email |-> form.email,
                      title |-> form.title, stories |-> stories],
                     ss, d, ob, {})
        ELSE Running("idle", NoLocals, ss, d, ob, {})

\* Lines 322-333: the Analyze button up to the first store call.
AnalyzeStart(ss0, d, ob, form, text) ==
    LET ss      == Begin(ss0, NoEvent)
        stories == IF Truthy(Strip(text)) THEN <<Strip(text)>> ELSE <<>>
        idle    == Running("idle", NoLocals, ss, d, ob, {})
    IN  IF ~Truthy(form.name) \/ ~Truthy(form.email) \/ ~Truthy(form.title)
        THEN Finished(idle, ss, d, ob, {"fill_fields"})
        ELSE IF Truthy(stories)
        THEN Running("an_student",
                     [student_name |-> form.name, email |-> form.email,
                      title |-> form.title, stories |-> stories],
                     ss, d, ob, {})
        ELSE idle

\* Lines 347-351 and 407-410: the Submit button up to the first store call.
SubmitStart(ss0, d, ob, reflection) ==
    LET ss == Begin(ss0, NoEvent)
    IN  Running("sub_student",
                [name |-> ss["student_name"], email_addr |-> ss["student_email"],
                 story_title |-> ss["story_title"],
                 week_number |-> ss["week_number"], reflection |-> reflection],
                ss, d, ob, {})

AnalyzePcs == {"an_student", "an_week", "an_check"}

SubmitPcs == {"sub_student", "sub_week", "sub_check", "sub_insert", "sub_email"}

\* One store or mail call of whichever handler is running.
HandlerStep(r, o) == IF r.pc \in AnalyzePcs THEN AnalyzeStep(r, o) ELSE SubmitStep(r, o)

\* What may go wrong: the outcomes of the two upserts, of the existence
\* probe, of the insert and of SMTP.
AllFaults ==
    [upsert |-> DbOutcomes, probe |-> DbOutcomes, insert |-> InsertOutcomes,
     mail |-> MailOutcomes]

\* The existence probe always reaches the store and reads it.
ProbeAnswers == [AllFaults EXCEPT !.probe = {"ok"}]

\* Only the insert and SMTP may fail.
WriteFaults == [AllFaults EXCEPT !.probe = {"ok"}, !.upsert = {"ok"}]

\* The outcomes the call at position p can have.
OutcomesAt(p, F) ==
    CASE p \in {"an_check", "sub_check"} -> F.probe
      [] p = "sub_insert" -> F.insert
      [] p = "sub_email"  -> F.mail
      [] OTHER            -> F.upsert

\* Every way a handler run from r can end.
RECURSIVE Runs(_, _)
Runs(r, F) ==
    IF r.pc = "idle" THEN {r}
    ELSE UNION {Runs(HandlerStep(r, o), F) : o \in OutcomesAt(r.pc, F)}

\* The state after the script of session s reached r.
Install(s, r) ==
    /\ session' = [session EXCEPT ![s] = r.session]
    /\ db' = r.db
    /\ outbox' = r.outbox
    /\ pc' = [pc EXCEPT ![s] = r.pc]
    /\ loc' = [loc EXCEPT ![s] = IF r.pc = "idle" THEN NoLocals
                                  ELSE Put(r.loc, "shown", r.msgs)]
    /\ IF r.pc = "idle" THEN Shown(s, r.msgs) ELSE UNCHANGED screen
    /\ UNCHANGED secrets

\* Clicking Analyze; the run goes on to its first store call.
AnalyzeClick(s, form, text) ==
    /\ Idle(s)
    /\ OnInput(s)
    /\ Install(s, AnalyzeStart(session[s], db, outbox, form, text))

\* Submit runs that have started and not ended.
InFlight == Cardinality({t \in Sessions : pc[t] \in SubmitPcs})

\* Clicking Submit Feedback & Send Email.
SubmitClick(s, reflection) ==
    /\ Idle(s)
    /\ OnReflection(s)
    /\ Len(db.student_inputs) + InFlight < MaxInputs
    /\ Install(s, SubmitStart(session[s], db, outbox, reflection))

\* The running script of session s makes its next store or mail call.
Call(s, o, F) ==
    /\ ~Idle(s)
    /\ o \in OutcomesAt(pc[s], F)
    /\ Install(s, HandlerStep(Running(pc[s], loc[s], session[s], db, outbox,
                                      loc[s]["shown"]), o))

\* A whole Analyze run with no other session's call in between.
Analyze(s, form, text, F) ==
    /\ Idle(s)
    /\ OnInput(s)
    /\ \E r \in Runs(AnalyzeStart(session[s], db, outbox, form, text), F) : Install(s, r)

\* A whole Submit run with no other session's call in between.
Submit(s, reflection, F) ==
    /\ Idle(s)
    /\ OnReflection(s)
    /\ Len(db.student_inputs) < MaxInputs
    /\ \E r \in Runs(SubmitStart(session[s], db, outbox, reflection), F) : Install(s, r)

\* ------------------------------------------------------------------------
\* Specifications
\* ------------------------------------------------------------------------

\* The sidebar.
Admin(s) ==
    \/ \E k \in AdminKeys : Unlock(s, k)
    \/ Lock(s)
    \/ \E w \in AdminWeeks : SetWeek(s, w)

\* The analysis page's widgets.
Review(s) ==
    \/ \E i \in 1..MaxSentences : Toggle(s, i)
    \/ \E c \in Comments : EditComment(s, c)

\* What is typed in the story box where the story's content does not matter.
ShortStories == {<<>>, <<Blank>>, <<"s1">>}

\* Concurrent sessions of one student: the scripts interleave call by call.
\* The probe always answers, so a second row for a pair can only come from
\* the interleaving.
Next ==
    \E s \in Sessions :
        \/ \E f \in Forms, t \in ShortStories : AnalyzeClick(s, f, t)
        \/ NextClick(s)
        \/ \E r \in {<<>>} : SubmitClick(s, r)
        \/ \E o \in DbOutcomes \cup InsertOutcomes \cup MailOutcomes :
                Call(s, o, ProbeAnswers)
        \/ Restart(s)

Spec == Init /\ [][Next]_vars

\* Sessions one at a time: every run ends before the next event is served.
Sequential(F) ==
    \E s \in Sessions :
        \/ \E f \in Forms \cup {OtherForm}, t \in ShortStories : Analyze(s, f, t, F)
        \/ NextClick(s)
        \/ \E r \in {<<>>} : Submit(s, r, F)
        \/ Restart(s)

\* Sequential sessions, every call free to fail.
NextSeq == Sequential(AllFaults)

SpecSeq == Init /\ [][NextSeq]_vars

\* Sequential sessions whose existence probe always observes the store.
NextObs == Sequential(ProbeAnswers)

SpecObs == Init /\ [][NextObs]_vars

\* One session, every story and every review of it.
NextOne ==
    \E s \in {"u1"} :
        \/ \E f \in {OtherForm}, t \in Stories : Analyze(s, f, t, WriteFaults)
        \/ Review(s)
        \/ NextClick(s)
        \/ \E r \in Reflections : Submit(s, r, WriteFaults)
        \/ Restart(s)

SpecOne == Init /\ [][NextOne]_vars

\* ------------------------------------------------------------------------
\* Properties
\* ------------------------------------------------------------------------

\* The student_inputs rows of the student with this email (as the store
\* keys it) in the week with this number.
RowsFor(d, email, week_number) ==
    {i \in 1..Len(d.student_inputs) :
        \E st \in d.students, wk \in d.weeks :
            /\ st.email = Lower(Strip(email))
            /\ wk.week_number = week_number
            /\ d.student_inputs[i].student_id = st.student_id
            /\ d.student_inputs[i].week_id = wk.week_id}

\* The rows of the pair session s would submit for.
OwnRows(d, s) == RowsFor(d, session[s]["student_email"], session[s]["week_number"])

\* At most one Submission per (student_id, week_id).
AtMostOnePerPair ==
    \A i, j \in 1..Len(db.student_inputs) :
        (/\ db.student_inputs[i].student_id = db.student_inputs[j].student_id
         /\ db.student_inputs[i].week_id = db.student_inputs[j].week_id) => i = j

\* C1: with sessions served one at a time and a probe that observes the
\* store, a Submit for a pair that already has a Submission is rejected: it
\* shows the resubmission message (or stops at an unresolved student or
\* week), adds no row, sends no email, and the pair keeps exactly one row.
C1_ResubmitRejected ==
    [][\A s \in Sessions :
        (/\ Idle(s) /\ OnReflection(s)
         /\ OwnRows(db, s) # {}
         /\ Submit(s, <<>>, ProbeAnswers))
        => (/\ db'.student_inputs = db.student_inputs
            /\ db'.student_sentences = db.student_sentences
            /\ outbox' = outbox
            /\ screen' \in {{"already_submitted"}, {"could_not_resolve"}}
            /\ Cardinality(OwnRows(db', s)) = 1)]_vars

\* C1 witness: a Submit has just been rejected for a pair that has its one row.
C1_Witness ==
    /\ screen = {"already_submitted"}
    /\ \A t \in Sessions : OnReflection(t)
    /\ \E s \in Sessions : Cardinality(OwnRows(db, s)) = 1
    /\ Len(db.student_inputs) = 1

\* C5 (as claimed): with sessions served one at a time and every store call
\* free to fail, no pair ever has more than one Submission row.
C5_AtMostOneUnderFaults == AtMostOnePerPair

\* The student_inputs row with this identifier exists.
Committed(d, input_id) ==
    \E i \in 1..Len(d.student_inputs) : d.student_inputs[i].input_id = input_id

\* C2: whenever a message is handed to SMTP, it is one message, sent by a
\* Submit run whose insert has returned an identifier, the row with that
\* identifier is committed in the store and is that run's own, and the
\* message goes to that run's address; a run whose insert returned no
\* identifier ends without sending.
C2_EmailOnlyAfterCommit ==
    [][/\ outbox' # outbox =>
            \E s \in Sessions :
                /\ pc[s] = "sub_email" /\ pc'[s] = "idle"
                /\ loc[s]["input_id"] # NoId
                /\ Committed(db, loc[s]["input_id"])
                /\ \E i \in 1..Len(db.student_inputs) :
                        /\ db.student_inputs[i].input_id = loc[s]["input_id"]
                        /\ db.student_inputs[i].student_id = loc[s]["student_id"]
                        /\ db.student_inputs[i].email = loc[s]["email_addr"]
                /\ outbox' = Append(outbox, SubmitMessage(loc[s], session[s]))
       /\ \A s \in Sessions :
            (pc[s] = "sub_insert" /\ pc'[s] # "sub_insert"
                /\ Len(db'.student_inputs) = Len(db.student_inputs))
            => (pc'[s] = "idle" /\ outbox' = outbox /\ screen' = {"could_not_save"})
       /\ \A s \in Sessions :
            (pc[s] \in SubmitPcs \ {"sub_email"} /\ pc'[s] # pc[s])
            => outbox' = outbox]_vars

\* C2 witness: a run has sent its email, and another run's write failed.
C2_Witness ==
    /\ Len(outbox) = 1
    /\ Len(db.student_inputs) = 1
    /\ screen = {"could_not_save"}

\* C3: a failed insert_submission_and_sentences, whichever statement failed,
\* leaves the store exactly as it was, returns no identifier (the run ends
\* with "could not save") and no email is sent; a successful one adds the
\* parent row and all its sentence rows together.
C3_InsertAllOrNothing ==
    [][\A s \in Sessions :
        (pc[s] = "sub_insert" /\ pc'[s] # "sub_insert")
        => \/ /\ pc'[s] = "idle"
              /\ db' = db
              /\ outbox' = outbox
              /\ screen' = {"could_not_save"}
           \/ /\ pc'[s] = "sub_email"
              /\ Len(db'.student_inputs) = Len(db.student_inputs) + 1
              /\ Len(db'.student_sentences) =
                    Len(db.student_sentences) + Len(session[s]["sentence_rows"])
              /\ loc'[s]["input_id"] = db'.student_inputs[Len(db'.student_inputs)].input_id]_vars

\* C3 witness: an insert has failed; neither a row nor an email exists.
C3_Witness ==
    /\ screen = {"could_not_save"}
    /\ db.student_inputs = <<>>
    /\ db.student_sentences = <<>>
    /\ outbox = <<>>

\* C4: a Submit run that is past its existence check inserts for its pair
\* whatever the store holds by then: its parent row is appended even when
\* another session has committed a row for the same pair in the meantime.
C4_InsertIgnoresStore ==
    [][\A s \in Sessions :
        (pc[s] = "sub_insert" /\ pc'[s] = "sub_email")
        => LET n == Len(db'.student_inputs)
           IN  /\ n = Len(db.student_inputs) + 1
               /\ db'.student_inputs[n].student_id = loc[s]["student_id"]
               /\ db'.student_inputs[n].week_id = loc[s]["week_id"]]_vars

\* C4 witness: with a probe that never fails, two sessions' inserts have both
\* committed and the pair has two Submission rows.
C4_Witness ==
    \E s, t \in Sessions :
        /\ s # t
        /\ pc[s] = "sub_email" /\ pc[t] = "sub_email"
        /\ loc[s]["student_id"] = loc[t]["student_id"]
        /\ loc[s]["week_id"] = loc[t]["week_id"]
        /\ loc[s]["input_id"] # loc[t]["input_id"]
        /\ Committed(db, loc[s]["input_id"]) /\ Committed(db, loc[t]["input_id"])
        /\ ~AtMostOnePerPair

\* What the sessions of the sequential specifications may type.
SeqForms == Forms \cup {OtherForm}

\* An Analyze run of session s that ended with the resubmission message.
AnalyzeRefused(s, f, t) ==
    /\ "already_submitted" \in screen'
    /\ Idle(s) /\ OnInput(s)
    /\ Analyze(s, f, t, AllFaults)

\* C6 (as claimed): an Analyze that finds an existing Submission changes
\* nothing: the session state and the whole store are as before the action.
C6_RefusalChangesNothing ==
    [][\A s \in Sessions, f \in SeqForms, t \in ShortStories :
        AnalyzeRefused(s, f, t) => (session' = session /\ db' = db)]_vars

\* The students table after the upsert of this name under this email.
Renamed(students, full_name, email) ==
    {IF st.email = Lower(Strip(email)) THEN [st EXCEPT !.full_name = Strip(full_name)]
     ELSE st : st \in students}

\* C6 (amended): an Analyze that finds an existing Submission leaves the
\* session on the input page with its fields as they were, writes no
\* Submission and no sentence row, sends nothing and leaves the weeks as they
\* were; of the students it changes one thing: the row of the entered email
\* now carries the entered name.
C6_RefusalOnlyRenames ==
    [][\A s \in Sessions, f \in SeqForms, t \in ShortStories :
        AnalyzeRefused(s, f, t)
        => (/\ session' = session
            /\ session'[s]["page"] = "input"
            /\ db'.student_inputs = db.student_inputs
            /\ db'.student_sentences = db.student_sentences
            /\ db'.weeks = db.weeks
            /\ db'.students = Renamed(db.students, f.name, f.email)
            /\ outbox' = outbox)]_vars

\* C6 witness: every session is on the input page, the last run refused an
\* Analyze, and the student of a stored Submission now carries another name
\* than the one it was submitted under.
C6_Witness ==
    /\ screen = {"already_submitted"}
    /\ \A s \in Sessions : OnInput(s)
    /\ \E i \in 1..Len(db.student_inputs), st \in db.students :
            /\ st.student_id = db.student_inputs[i].student_id
            /\ st.full_name # db.student_inputs[i].student_name

\* C7: a session leaves the input page for the results page only with a
\* non-empty name, email, title and story, which it then holds; an Analyze
\* click with any of the four empty ends the run at once: no store call is
\* started, the session stays on the input page, and the session, the store
\* and the outbox are untouched.
C7_AnalyzeNeedsAllFields ==
    [][\A s \in Sessions :
        /\ (session[s]["page"] = "input" /\ session'[s]["page"] = "results")
            => (/\ pc[s] \in AnalyzePcs
                /\ Truthy(session'[s]["student_name"])
                /\ Truthy(session'[s]["student_email"])
                /\ Truthy(session'[s]["story_title"])
                /\ Truthy(session'[s]["stories"])
                /\ Truthy(session'[s]["stories"][1]))
        /\ \A f \in Forms, t \in ShortStories :
            (/\ ~Truthy(f.name) \/ ~Truthy(f.email) \/ ~Truthy(f.title) \/ ~Truthy(t)
             /\ AnalyzeClick(s, f, t))
            => (/\ pc'[s] = "idle"
                /\ session'[s]["page"] = "input"
                /\ session' = session
                /\ db' = db
                /\ outbox' = outbox)]_vars

\* C7 witness: an Analyze with an incomplete form has just been turned down
\* in one session while another got through to the results page.
C7_Witness ==
    /\ screen = {"fill_fields"}
    /\ \E s, t \in Sessions :
            /\ OnInput(s) /\ pc[s] = "idle"
            /\ session[t]["page"] = "results"
            /\ Truthy(session[t]["stories"][1])

\* The sentence rows stored under this input_id, in the order written.
SentencesOf(d, input_id) ==
    SelectSeq(d.student_sentences, LAMBDA x : x.input_id = input_id)

\* C8: the counts a session holds, and the counts of every stored
\* Submission, satisfy total_sentences = show_sentences + tell_sentences, and
\* that total is the number of sentence rows the session holds, respectively
\* the number of student_sentences rows stored under the Submission.
C8_TotalsAgree ==
    /\ \A s \in Sessions :
        "total_sentences" \in DOMAIN session[s]
        => (/\ session[s]["total_sentences"]
                    = session[s]["show_sentences"] + session[s]["tell_sentences"]
            /\ session[s]["total_sentences"] = Len(session[s]["sentence_rows"]))
    /\ \A i \in 1..Len(db.student_inputs) :
        LET row == db.student_inputs[i]
        IN  /\ row.total_sentences = row.show_sentences + row.tell_sentences
            /\ row.total_sentences = Len(SentencesOf(db, row.input_id))

\* C8 witness: a stored Submission of two sentences, one Show and one Tell,
\* with its two sentence rows.
C8_Witness ==
    \E i \in 1..Len(db.student_inputs) :
        /\ db.student_inputs[i].total_sentences = 2
        /\ db.student_inputs[i].show_sentences = 1
        /\ db.student_inputs[i].tell_sentences = 1
        /\ Len(SentencesOf(db, db.student_inputs[i].input_id)) = 2

\* How many of these sentence records carry this label and this answer.
Tally(records, label, agree) ==
    Cardinality({i \in 1..Len(records) :
                    records[i].label = label /\ records[i].agree = agree})

\* C9: every summary a session holds, and every stored Submission, carries
\* the four tallies agreed_show, disagreed_show, agreed_tell, disagreed_tell
\* counted from the checkboxes, the Show pair adding up to show_sentences and
\* the Tell pair to tell_sentences.
C9_TalliesCarried ==
    /\ \A s \in Sessions :
        "student_feedback" \in DOMAIN session[s]
        => LET ss == session[s]
               fb == ss["student_feedback"]
           IN  /\ {"agreed_show", "disagreed_show", "agreed_tell", "disagreed_tell"}
                        \subseteq DOMAIN ss
               /\ ss["agreed_show"] = Tally(fb, "Show", TRUE)
               /\ ss["disagreed_show"] = Tally(fb, "Show", FALSE)
               /\ ss["agreed_tell"] = Tally(fb, "Tell", TRUE)
               /\ ss["disagreed_tell"] = Tally(fb, "Tell", FALSE)
    /\ \A i \in 1..Len(db.student_inputs) :
        LET row == db.student_inputs[i]
        IN  /\ NULL \notin {row.agreed_show, row.disagreed_show,
                            row.agreed_tell, row.disagreed_tell}
            /\ row.agreed_show + row.disagreed_show = row.show_sentences
            /\ row.agreed_tell + row.disagreed_tell = row.tell_sentences

\* The rows the classifier's output calls for: one per sentence of the story,
\* numbered from 0, each with its sentence and the text of its label.
ClassifierRows(story) ==
    LET sentences   == SentTokenize(story)
        predictions == predict_sentences(sentences)
    IN  [i \in 1..Len(sentences) |->
            [sentence_idx |-> i - 1, sentence_text |-> sentences[i],
             model_label |-> LabelText(predictions[i])]]

\* C10: the sentence rows stored with a Submission are, in order, one per
\* (sentence, label) pair of the classifier's output for the stored story:
\* row i has sentence_idx i (from 0, no gap, no repeat), the i-th sentence and
\* its label.
C10_SentenceRowsFollowClassifier ==
    \A i \in 1..Len(db.student_inputs) :
        LET row  == db.student_inputs[i]
            rows == SentencesOf(db, row.input_id)
            want == ClassifierRows(row.story)
        IN  /\ Len(rows) = Len(want)
            /\ \A k \in 1..Len(rows) :
                /\ rows[k].sentence_idx = k - 1
                /\ rows[k].sentence_idx = want[k].sentence_idx
                /\ rows[k].sentence_text = want[k].sentence_text
                /\ rows[k].model_label = want[k].model_label

\* C10 witness: a Submission stored with two sentence rows, numbered 0 and 1,
\* the first labelled Tell and the second Show.
C10_Witness ==
    \E i \in 1..Len(db.student_inputs) :
        LET rows == SentencesOf(db, db.student_inputs[i].input_id)
        IN  /\ Len(rows) = 2
            /\ rows[1].sentence_idx = 0 /\ rows[1].model_label = "Tell"
            /\ rows[2].sentence_idx = 1 /\ rows[2].model_label = "Show"

\* C11 (as claimed): whatever page an idle session shows, the Restart button
\* is there to be clicked.
C11_ResetAlwaysOffered ==
    \A s \in Sessions : Idle(s) => ENABLED Restart(s)

\* ------------------------------------------------------------------------
\* Configuration: what .streamlit/secrets.toml may hold
\* ------------------------------------------------------------------------

\* Mutant: only the address is looked at.
CredsOk_address_only == Truthy(get_secret("EMAIL_ADDRESS"))

\* Lines 30-32: both mail credentials are configured and non-empty.
CredsOk == Truthy(get_secret("EMAIL_ADDRESS")) /\ Truthy(get_secret("EMAIL_PASSWORD"))

\* The secrets files considered: complete, with another current week, with
\* the admin key unset, empty or blank, and with a mail credential unset or
\* empty.
Configs ==
    {FullSecrets,
     [EMAIL_ADDRESS |-> <<"e">>, EMAIL_PASSWORD |-> <<"p">>, ADMIN_KEY |-> <<"k">>,
      CURRENT_WEEK |-> FallbackWeek + 1],
     [EMAIL_ADDRESS |-> <<"e">>, EMAIL_PASSWORD |-> <<"p">>],
     [EMAIL_ADDRESS |-> <<"e">>, EMAIL_PASSWORD |-> <<"p">>, ADMIN_KEY |-> <<>>],
     [EMAIL_ADDRESS |-> <<"e">>, EMAIL_PASSWORD |-> <<"p">>, ADMIN_KEY |-> <<Blank>>],
     [EMAIL_ADDRESS |-> <<"e">>, ADMIN_KEY |-> <<"k">>],
     [EMAIL_ADDRESS |-> <<>>, EMAIL_PASSWORD |-> <<"p">>, ADMIN_KEY |-> <<"k">>],
     [ADMIN_KEY |-> <<"k">>]}

\* session_state after the first run of the script: untouched when the run
\* stopped at line 34.
FirstRun == IF CredsOk THEN Begin(Cleared, NoEvent) ELSE Cleared

InitCfg ==
    /\ secrets \in Configs
    /\ session = [s \in Sessions |-> FirstRun]
    /\ db = EmptyDb
    /\ outbox = <<>>
    /\ screen = {}
    /\ pc = [s \in Sessions |-> "idle"]
    /\ loc = [s \in Sessions |-> NoLocals]

\* Lines 32-34: a run without mail credentials shows the error and stops
\* before line 271; no widget exists, so a run is all a session can cause.
HaltedRun(s) ==
    /\ ~CredsOk
    /\ Idle(s)
    /\ Shown(s, {"email_creds_missing"})
    /\ UNCHANGED <<secrets, session, db, outbox, pc, loc>>

\* Every call succeeds.
NoFaults == [upsert |-> {"ok"}, probe |-> {"ok"}, insert |-> {"ok"}, mail |-> {"ok"}]

\* The stories entered where the sidebar is what matters.
CfgStories == {<<"s1">>, <<"s2", "s1">>}

\* One session under every configuration: the sidebar and the whole workflow
\* when the script gets past line 34, the halted run when it does not.
NextCfg ==
    \E s \in {"u1"} :
        \/ CredsOk /\ \E k \in AdminKeys : Unlock(s, k)
        \/ CredsOk /\ Lock(s)
        \/ CredsOk /\ \E w \in AdminWeeks : SetWeek(s, w)
        \/ CredsOk /\ \E t \in CfgStories : Analyze(s, OtherForm, t, NoFaults)
        \/ CredsOk /\ Review(s)
        \/ CredsOk /\ NextClick(s)
        \/ CredsOk /\ \E r \in {<<>>} : Submit(s, r, NoFaults)
        \/ CredsOk /\ Restart(s)
        \/ HaltedRun(s)

SpecCfg == InitCfg /\ [][NextCfg]_vars

\* The configured default week is what the session holds.
WeekIsDefault(ss) == ss["week_number"] = current_week_default

\* C12 (as claimed): a session that is not admin-unlocked at the end of a run
\* displayed, and holds, the configured default week.
C12_LockedWeekIsDefault ==
    \A s \in Sessions :
        (CredsOk /\ ~GetFlag(session[s], "admin_ok")) => WeekIsDefault(session[s])

\* No admin key is configured: ADMIN_KEY is unset, empty or blank.
NoAdminKey == ~Truthy(Strip(read_admin_key))

\* C13: with no admin key configured, every Unlock, whatever key is entered,
\* ends with the configuration error; no session is or becomes
\* admin-unlocked, and every run leaves week_number at the configured default.
C13_UnsetKeyNeverUnlocks ==
    [][(CredsOk /\ NoAdminKey) =>
        \A s \in Sessions :
            /\ ~GetFlag(session[s], "admin_ok") /\ WeekIsDefault(session[s])
            /\ ~GetFlag(session'[s], "admin_ok") /\ WeekIsDefault(session'[s])
            /\ \A k \in AdminKeys :
                    Unlock(s, k) => screen' = {"admin_key_missing"}]_vars

\* C13 witness: no admin key is configured and an Unlock has just failed with
\* the configuration error, the session being in the middle of its workflow.
C13_Witness ==
    /\ CredsOk /\ NoAdminKey
    /\ screen = {"admin_key_missing"}
    /\ \E s \in Sessions : session[s]["page"] = "results"

\* What send_feedback_email shows when SMTP fails.
MailFailures == {"gmail_auth_failed", "email_failed"}

\* C14: the email step of a Submit run, which follows the committed insert,
\* ends the run and leaves the store as it is, the run's Submission and its
\* sentence rows included; when nothing was sent a mail failure is on display,
\* and when a mail failure is on display nothing was sent, then or again.
C14_MailFailureKeepsRow ==
    [][\A s \in Sessions :
        (pc[s] = "sub_email" /\ pc'[s] # "sub_email")
        => /\ pc'[s] = "idle"
           /\ db' = db
           /\ Committed(db', loc[s]["input_id"])
           /\ Len(SentencesOf(db', loc[s]["input_id"])) = Len(session[s]["sentence_rows"])
           /\ (outbox' = outbox => screen' \cap MailFailures # {})
           /\ (screen' \cap MailFailures # {} => outbox' = outbox)
           /\ Len(outbox') <= Len(outbox) + 1]_vars

\* C14 witness: a Submission with its sentence row is stored, the mail failed
\* and was reported, and nothing was ever sent.
C14_Witness ==
    /\ screen \cap MailFailures # {}
    /\ Len(db.student_inputs) = 1
    /\ Len(SentencesOf(db, db.student_inputs[1].input_id)) >= 1
    /\ outbox = <<>>
    /\ \A s \in Sessions : pc[s] = "idle"

\* EMAIL_ADDRESS or EMAIL_PASSWORD is missing from the configuration.
MailCredsMissing ==
    \/ "EMAIL_ADDRESS" \notin DOMAIN secrets \/ "EMAIL_PASSWORD" \notin DOMAIN secrets
    \/ secrets["EMAIL_ADDRESS"] = <<>> \/ secrets["EMAIL_PASSWORD"] = <<>>

\* C15: when EMAIL_ADDRESS or EMAIL_PASSWORD is unset or empty, no run gets
\* past the check: session_state stays as it was before the first run (empty,
\* not even admin_ok or page initialised), no handler starts, the store is
\* untouched and nothing is sent.
C15_MissingCredsHalt ==
    [][MailCredsMissing =>
        /\ \A s \in Sessions : session[s] = Cleared /\ session'[s] = Cleared
        /\ pc' = pc /\ \A s \in Sessions : pc[s] = "idle"
        /\ db = EmptyDb /\ db' = db
        /\ outbox = <<>> /\ outbox' = outbox
        /\ screen' = {"email_creds_missing"}]_vars

\* C15 witness: a mail credential is missing and a run has just halted on it.
C15_Witness ==
    /\ MailCredsMissing
    /\ screen = {"email_creds_missing"}
    /\ \A s \in Sessions : session[s] = Cleared

\* ------------------------------------------------------------------------
\* The two upserts on their own, called with every argument in any order
\* ------------------------------------------------------------------------

StoreNames == {<<"n">>, <<Blank, "m">>}

\* Two students; the first is written in three ways.
StoreEmails == {<<"a">>, <<Blank, "A">>, <<"a", Blank>>, <<"b">>}

StoreWeeks == {FallbackWeek, FallbackWeek + 1}

StoreLabels == {NoLabel, <<"L">>}

\* What a caller keeps of a call: the helper, its key argument, its result.
NoCall == <<>>

InitStore ==
    /\ secrets = FullSecrets
    /\ session = [s \in Sessions |-> Begin(Cleared, NoEvent)]
    /\ db = EmptyDb
    /\ outbox = <<>>
    /\ screen = {}
    /\ pc = [s \in Sessions |-> "idle"]
    /\ loc = [s \in Sessions |-> [last |-> NoCall, prev |-> NoCall]]

\* The caller's record after one more call.
Noted(l, fn, key, val, ret) ==
    [last |-> [fn |-> fn, key |-> key, val |-> val, ret |-> ret], prev |-> l.last]

\* A call of get_or_create_student.
CallStudent(s, full_name, email, o) ==
    LET g == get_or_create_student(db, full_name, email, o)
    IN  /\ db' = g.db
        /\ loc' = [loc EXCEPT ![s] = Noted(@, "get_or_create_student", email, full_name, g.ret)]
        /\ UNCHANGED <<secrets, session, outbox, screen, pc>>

\* A call of get_or_create_week.
CallWeek(s, week_number, label, o) ==
    LET g == get_or_create_week(db, week_number, label, o)
    IN  /\ db' = g.db
        /\ loc' = [loc EXCEPT ![s] = Noted(@, "get_or_create_week", week_number, label, g.ret)]
        /\ UNCHANGED <<secrets, session, outbox, screen, pc>>

NextStore ==
    \E s \in {"u1"}, o \in DbOutcomes :
        \/ \E n \in StoreNames, e \in StoreEmails : CallStudent(s, n, e, o)
        \/ \E w \in StoreWeeks, l \in StoreLabels : CallWeek(s, w, l, o)

SpecStore == InitStore /\ [][NextStore]_vars

\* The students rows with this email as the store keys it.
StudentRows(d, email) == {r \in d.students : r.email = Lower(Strip(email))}

\* C16: on any store, two successful calls of get_or_create_student whose
\* emails differ at most in letter case and surrounding blanks return the same
\* student_id, and afterwards that email has exactly one row, with that id and
\* the (trimmed) name of the second call; the other rows are as they were.
C16_StudentUpsertIdempotent ==
    \A n1, n2 \in StoreNames, e1, e2 \in StoreEmails :
        Lower(Strip(e1)) = Lower(Strip(e2))
        => LET g1 == get_or_create_student(db, n1, e1, "ok")
               g2 == get_or_create_student(g1.db, n2, e2, "ok")
           IN  /\ g1.ret # NoId
               /\ g2.ret = g1.ret
               /\ StudentRows(g2.db, e1) =
                    {[student_id |-> g1.ret, full_name |-> Strip(n2),
                      email |-> Lower(Strip(e1))]}
               /\ g2.db.students \ StudentRows(g2.db, e1) = db.students \ StudentRows(db, e1)
               /\ \A r1, r2 \in g2.db.students : r1.student_id = r2.student_id => r1 = r2

\* C16 witness: two calls in a row, their emails written differently, gave
\* the same id, and the one row of that email carries the later name.
C16_Witness ==
    \E s \in Sessions :
        LET a == loc[s].prev
            b == loc[s].last
        IN  /\ a # NoCall /\ b # NoCall
            /\ a.fn = "get_or_create_student" /\ b.fn = "get_or_create_student"
            /\ a.key # b.key /\ a.val # b.val
            /\ a.ret # NoId /\ a.ret = b.ret
            /\ Cardinality(db.students) = 2
            /\ StudentRows(db, b.key) =
                    {[student_id |-> b.ret, full_name |-> Strip(b.val),
                      email |-> Lower(Strip(a.key))]}

\* The weeks rows with this number.
WeekRows(d, week_number) == {r \in d.weeks : r.week_number = week_number}

\* C17: on any store, two successful calls of get_or_create_week with the
\* same week_number, whatever their labels, return the same week_id, and
\* afterwards that number has exactly one row, with that id; the call with
\* another label changes the label only, and no row's week_number.
C17_WeekUpsertIdempotent ==
    \A w \in StoreWeeks, l1, l2 \in StoreLabels :
        LET g1 == get_or_create_week(db, w, l1, "ok")
            g2 == get_or_create_week(g1.db, w, l2, "ok")
        IN  /\ g1.ret # NoId
            /\ g2.ret = g1.ret
            /\ Cardinality(WeekRows(g2.db, w)) = 1
            /\ \A r \in WeekRows(g2.db, w) : r.week_id = g1.ret
            /\ {<<r.week_id, r.week_number>> : r \in g2.db.weeks}
                    = {<<r.week_id, r.week_number>> : r \in g1.db.weeks}
            /\ g2.db.weeks \ WeekRows(g2.db, w) = db.weeks \ WeekRows(db, w)
            /\ \A r1, r2 \in g2.db.weeks : r1.week_id = r2.week_id => r1 = r2

\* C17 witness: two calls in a row for one week_number with different labels
\* gave the same id; the number's one row has the later label.
C17_Witness ==
    \E s \in Sessions :
        LET a == loc[s].prev
            b == loc[s].last
        IN  /\ a # NoCall /\ b # NoCall
            /\ a.fn = "get_or_create_week" /\ b.fn = "get_or_create_week"
            /\ a.key = b.key /\ a.val # b.val
            /\ a.ret # NoId /\ a.ret = b.ret
            /\ Cardinality(db.weeks) = 2
            /\ WeekRows(db, b.key) =
                    {[week_id |-> b.ret, week_number |-> b.key, label |-> <<"L">>]}

\* What the analysis block leaves in session_state for the later steps.
Frozen(ss) ==
    [sentence_rows |-> ss["sentence_rows"], student_feedback |-> ss["student_feedback"],
     total_sentences |-> ss["total_sentences"], show_sentences |-> ss["show_sentences"],
     tell_sentences |-> ss["tell_sentences"], common_reason |-> ss["common_reason"]]

\* The sentence rows of a session as the store would hold them under input_id.
AsStored(ss, input_id, week_id) ==
    [i \in 1..Len(ss["sentence_rows"]) |->
        [input_id |-> input_id, week_id |-> week_id,
         sentence_idx |-> ss["sentence_rows"][i][1],
         sentence_text |-> ss["sentence_rows"][i][2],
         model_label |-> ss["sentence_rows"][i][3],
         student_agree |-> ss["sentence_rows"][i][4]]]

\* C18: the click on Next keeps the sentence rows, agreement flags, counts and
\* comment the page was showing, and from then on no event of the session
\* changes them while analysis_done stays set; the row and sentence rows a
\* Submit stores, and the email it sends, carry exactly these values.
C18_FrozenAfterNext ==
    [][\A s \in Sessions :
        /\ (GetFlag(session[s], "analysis_done") /\ GetFlag(session'[s], "analysis_done"))
            => Frozen(session'[s]) = Frozen(session[s])
        /\ (/\ "analysis_done" \in DOMAIN session[s]
            /\ session[s]["page"] = "results"
            /\ ~session[s]["analysis_done"]
            /\ GetFlag(session'[s], "analysis_done"))
            => Frozen(session'[s]) = Frozen(session[s])
        /\ (GetFlag(session[s], "analysis_done")
                /\ Len(db'.student_inputs) = Len(db.student_inputs) + 1)
            => LET row == db'.student_inputs[Len(db'.student_inputs)]
                   ss  == session[s]
               IN  /\ row.total_sentences = ss["total_sentences"]
                   /\ row.show_sentences = ss["show_sentences"]
                   /\ row.tell_sentences = ss["tell_sentences"]
                   /\ row.comments = ss["common_reason"]
                   /\ SentencesOf(db', row.input_id)
                        = AsStored(ss, row.input_id, row.week_id)
        /\ (GetFlag(session[s], "analysis_done") /\ Len(outbox') = Len(outbox) + 1)
            => LET m  == outbox'[Len(outbox')]
                   ss == session[s]
               IN  /\ m.total_sentences = ss["total_sentences"]
                   /\ m.show_sentences = ss["show_sentences"]
                   /\ m.tell_sentences = ss["tell_sentences"]
                   /\ m.comment = ss["common_reason"]
                   /\ Len(m.details) = Len(ss["student_feedback"])
                   /\ \A i \in 1..Len(m.details) :
                        /\ m.details[i].sentence = ss["student_feedback"][i].sentence
                        /\ m.details[i].label = ss["student_feedback"][i].label
                        /\ (m.details[i].status = "Agreed")
                                = ss["student_feedback"][i].agree]_vars

\* C18 witness: after Next and a Submit that stored a ticked sentence with a
\* comment and mailed it, the admin has just unlocked; the session still
\* holds the tick and the comment.
C18_Witness ==
    \E s \in Sessions :
        /\ screen = {"admin_unlocked"}
        /\ GetFlag(session[s], "analysis_done")
        /\ \E i \in 1..Len(session[s]["student_feedback"]) :
                session[s]["student_feedback"][i].agree
        /\ session[s]["common_reason"] # <<>>
        /\ \E j \in 1..Len(db.student_sentences) : db.student_sentences[j].student_agree = 1
        /\ Len(outbox) >= 1

\* C19: a Submit that sends an email has stored a Submission in the same run,
\* and the email's sentence list matches that Submission's sentence rows one
\* by one: same text, same label, marked agreed exactly when student_agree is
\* 1; the number of changes the email reports is the number of rows whose
\* student_agree is 0.
C19_EmailMatchesRows ==
    [][Len(outbox') = Len(outbox) + 1 =>
        /\ Len(db'.student_inputs) = Len(db.student_inputs) + 1
        /\ LET m    == outbox'[Len(outbox')]
               row  == db'.student_inputs[Len(db'.student_inputs)]
               rows == SentencesOf(db', row.input_id)
           IN  /\ Len(m.details) = Len(rows)
               /\ \A i \in 1..Len(rows) :
                    /\ rows[i].sentence_idx = i - 1
                    /\ m.details[i].sentence = rows[i].sentence_text
                    /\ m.details[i].label = rows[i].model_label
                    /\ (m.details[i].status = "Agreed") = (rows[i].student_agree = 1)
                    /\ m.details[i].status \in {"Agreed", "Did NOT agree"}
               /\ m.changed = Cardinality({i \in 1..Len(rows) : rows[i].student_agree = 0})]_vars

\* C19 witness: an email went out for a stored Submission of two sentences,
\* one agreed and one not.
C19_Witness ==
    /\ Len(outbox) = 1
    /\ Len(outbox[1].details) = 2
    /\ outbox[1].changed = 1
    /\ outbox[1].details[1].status = "Agreed"
    /\ Len(db.student_inputs) = 1
    /\ Len(SentencesOf(db, db.student_inputs[1].input_id)) = 2

\* analysis_done is set only on the results page and together with
\* feedback_complete.
DoneImpliesReflection(ss) ==
    ss["analysis_done"] => (ss["page"] = "results" /\ GetFlag(ss, "feedback_complete"))

\* C20: in every session state analysis_done implies page = 'results' and
\* feedback_complete.  The page turns to 'results' only at the end of an
\* Analyze run, with analysis_done still unset; analysis_done is set only by
\* a run on the results page; both are undone only by Restart's fresh state;
\* and a Submit handler runs, inserts and sends only in a session that has
\* both set.
C20_SubmitOnlyAfterAnalyzeAndNext ==
    [][\A s \in Sessions :
        /\ DoneImpliesReflection(session[s])
        /\ DoneImpliesReflection(session'[s])
        /\ (session[s]["page"] = "input" /\ session'[s]["page"] = "results")
            => (pc[s] \in AnalyzePcs /\ ~session'[s]["analysis_done"])
        /\ (~session[s]["analysis_done"] /\ session'[s]["analysis_done"])
            => (session[s]["page"] = "results" /\ pc[s] = "idle")
        /\ (\/ session[s]["page"] = "results" /\ session'[s]["page"] # "results"
            \/ session[s]["analysis_done"] /\ ~session'[s]["analysis_done"])
            => session'[s] = Begin(Cleared, NoEvent)
        /\ (pc[s] \in SubmitPcs \/ pc'[s] \in SubmitPcs)
            => (/\ session[s]["page"] = "results"
                /\ session[s]["analysis_done"]
                /\ GetFlag(session[s], "feedback_complete")
                /\ Truthy(session[s]["stories"]))
        /\ (pc[s] \notin SubmitPcs /\ pc'[s] = pc[s])
            => (\/ /\ Len(db'.student_inputs) = Len(db.student_inputs)
                   /\ outbox' = outbox
                \/ \E t \in Sessions \ {s} : pc[t] \in SubmitPcs)]_vars

\* C20 witness: a session has been through Analyze and Next, and its Submit
\* has stored a Submission and sent the email.
C20_Witness ==
    \E s \in Sessions :
        /\ session[s]["analysis_done"]
        /\ session[s]["page"] = "results"
        /\ pc[s] = "idle"
        /\ "submitted" \in screen
        /\ Len(db.student_inputs) >= 1
        /\ Len(outbox) >= 1

====
